---- MODULE Spec2Model ----
(***************************************************************************)
(* Election provider primitives (primitives/election-providers/src/lib.rs).*)
(*                                                                         *)
(* The crate declares two traits, ElectionDataProvider and                 *)
(* ElectionProvider, and documents them with one worked example: a data    *)
(* provider `data_provider::Module` and a stateless election provider      *)
(* `SomeElectionProvider` that is generic over its data provider.          *)
(*                                                                         *)
(* The model has one deployment per behaviour: a data provider snapshot    *)
(* (targets, voters, desired_targets) and exactly one election provider,   *)
(* either the stateless example provider of the crate documentation or a   *)
(* stateful provider following the Idle/Collecting/Ready state machine.    *)
(***************************************************************************)
EXTENDS Integers, Sequences, FiniteSets

\* ---------------------------------------------------------------- bounds
NumAccounts == 3   \* candidate account ids are 10, 20, ... 10*NumAccounts
MaxVoters   == 1   \* voter ids are 1..MaxVoters
MaxWeight   == 1   \* stake weights range over 0..MaxWeight
MaxApprovals == 1  \* longest approval list of a voter
MaxDesired  == 3   \* desired_targets() ranges over 0..MaxDesired
MaxDist     == 1   \* longest distribution handed to the feasibility check
Accuracy    == 1   \* parts of a PerThing range over 0..Accuracy
WorkNeeded  == 2   \* scheduling rounds a deferred election needs

\* ---------------------------------------------------------------- helpers
Accounts == {10 * i : i \in 1..NumAccounts}

SeqsUpTo(S, n) == UNION {[1..k -> S] : k \in 0..n}

NoDup(s) == \A i, j \in DOMAIN s : i # j => s[i] # s[j]

Range(s) == {s[i] : i \in DOMAIN s}

Min(a, b) == IF a <= b THEN a ELSE b

\* targets(): Vec<AccountId>, no two entries equal
TargetLists == {s \in SeqsUpTo(Accounts, NumAccounts) : NoDup(s)}

\* voters(): Vec<(AccountId, VoteWeight, Vec<AccountId>)>; voter i sits at
\* position i of the list
VoterTuples ==
  (1..MaxVoters) \X (0..MaxWeight)
     \X {a \in SeqsUpTo(Accounts, MaxApprovals) : NoDup(a)}

VoterLists ==
  {v \in SeqsUpTo(VoterTuples, MaxVoters) : \A i \in DOMAIN v : v[i][1] = i}

\* distribution: &[(AccountId, P)]
Distributions == SeqsUpTo(Accounts \X (0..Accuracy), MaxDist)

\* ------------------------------------------------------------------ state
VARIABLES
  provider,         \* which election provider the runtime binds
  targets,          \* T::DataProvider::targets()
  voters,           \* T::DataProvider::voters()
  desired_targets,  \* T::DataProvider::desired_targets()
  phase,            \* Idle / Collecting / Ready (stateful provider)
  stored,           \* the outcome held in Ready
  progress,         \* scheduling rounds of work done in Collecting
  call              \* the last call made and what it returned

vars == <<provider, targets, voters, desired_targets, phase, stored, progress, call>>

snapshot == <<targets, voters, desired_targets>>

machine == <<phase, stored, progress>>

\* ------------------------------------------------- the documented example
\* data_provider::Module of the crate documentation
ExampleDesiredTargets == 1

ExampleVoters == << >>

ExampleTargets == <<10, 20, 30>>

\* Support::default(): no backing stake, no backers
SupportDefault == [total |-> 0, voters |-> << >>]

\* Result<Supports<AccountId>, Self::Error>
Ok(s) == [tag |-> "Ok", supports |-> s]

Err(e) == [tag |-> e, supports |-> << >>]

NoOutcome == [tag |-> "None", supports |-> << >>]

\* elect() that records one unit of backing no voter contributed
elect_drift ==
  IF Len(targets) > 0
    THEN Ok(<< <<Head(targets), [total |-> 1, voters |-> << >>]>> >>)
    ELSE Err("Err")

\* elect() that lets every voter back the winner with more than it has
elect_overdraw ==
  IF Len(targets) > 0
    THEN Ok(<< <<Head(targets),
                 [total  |-> Len(voters),
                  voters |-> [i \in DOMAIN voters |-> <<voters[i][1], voters[i][2] + 1>>]]>> >>)
    ELSE Err("Err")

\* elect() that takes the last target instead of the first
elect_last ==
  IF Len(targets) > 0
    THEN Ok(<< <<targets[Len(targets)], SupportDefault>> >>)
    ELSE Err("Err")

\* SomeElectionProvider::elect: the first target, with a default Support;
\* Err(()) when there is no target
elect ==
  IF Len(targets) > 0
    THEN Ok(<< <<Head(targets), SupportDefault>> >>)
    ELSE Err("Err")

\* ongoing() that always reports an election in progress
ongoing_true == TRUE

\* SomeElectionProvider::ongoing
ongoing == FALSE

\* the approval list of `who` in voters(); empty when `who` is no voter
ApprovalsOf(who) ==
  UNION {Range(voters[i][3]) : i \in {j \in DOMAIN voters : voters[j][1] = who}}

\* the targets a distribution names
Named(distribution) == {distribution[i][1] : i \in DOMAIN distribution}

\* a feasibility check that enforces the approval lists
feasibility_check_approvals(who, distribution) ==
  Named(distribution) \subseteq ApprovalsOf(who)

\* data_provider::Module::feasibility_check_assignment
feasibility_check_assignment(who, distribution) == TRUE

\* ------------------------------------------------------ stateful provider
\* the solution a stateful provider stores: min(desired, |targets|) winners
Solve(t, d) == [i \in 1..Min(d, Len(t)) |-> <<t[i], SupportDefault>>]

\* the deterministic fallback outcome: the explicit empty outcome
Fallback == << >>

\* ongoing() of the stateful provider
ongoing_stateful(ph) == ph = "Collecting"

\* ------------------------------------------------------------------ calls
\* op: the operation; at: the provider's phase when it was called; prev: the
\* operation and result tag of the call before it
Call(op, who, dist, res, flag) ==
  [op |-> op, at |-> phase, prev |-> <<call.op, call.res.tag>>,
   who |-> who, dist |-> dist, res |-> res, flag |-> flag]

NoCall ==
  [op |-> "none", at |-> "Idle", prev |-> <<"none", "None">>,
   who |-> 0, dist |-> << >>, res |-> NoOutcome, flag |-> FALSE]

Init ==
  /\ provider \in {"stateless", "stateful"}
  /\ targets \in TargetLists
  /\ voters \in VoterLists
  /\ desired_targets \in 0..MaxDesired
  /\ phase = "Idle"
  /\ stored = NoOutcome
  /\ progress = 0
  /\ call = NoCall

\* ------------------------------------------------ the example, stateless
CallElect ==
  /\ provider = "stateless"
  /\ call' = Call("elect", 0, << >>, elect, FALSE)
  /\ UNCHANGED <<provider, snapshot, machine>>

\* ongoing() that marks an election as started
CallOngoing_starting ==
  /\ provider = "stateless"
  /\ call' = Call("ongoing", 0, << >>, NoOutcome, ongoing)
  /\ phase' = "Collecting"
  /\ UNCHANGED <<provider, snapshot, stored, progress>>

CallOngoing ==
  /\ provider = "stateless"
  /\ call' = Call("ongoing", 0, << >>, NoOutcome, ongoing)
  /\ UNCHANGED <<provider, snapshot, machine>>

\* the runtime of the example re-validates one voter's assignment
CallFeasibility ==
  /\ provider = "stateless"
  /\ \E who \in 1..MaxVoters, distribution \in Distributions :
       call' = Call("feasibility", who, distribution, NoOutcome,
                    feasibility_check_assignment(who, distribution))
  /\ UNCHANGED <<provider, snapshot, machine>>

\* ---------------------------------------------------- stateful provider
\* elect() in Idle, work done synchronously: the outcome is returned at once
ElectIdleSync ==
  /\ provider = "stateful"
  /\ phase = "Idle"
  /\ call' = Call("elect", 0, << >>, Ok(Solve(targets, desired_targets)), FALSE)
  /\ UNCHANGED <<provider, snapshot, machine>>

\* elect() in Idle that hands out the result slot without collecting
ElectIdleDefer_skip ==
  /\ provider = "stateful"
  /\ phase = "Idle"
  /\ phase' = "Ready"
  /\ stored' = Ok(Solve(targets, desired_targets))
  /\ call' = Call("elect", 0, << >>, Err("NotReady"), FALSE)
  /\ UNCHANGED <<provider, snapshot, progress>>

\* elect() in Idle, work deferred: the cycle starts
ElectIdleDefer ==
  /\ provider = "stateful"
  /\ phase = "Idle"
  /\ phase' = "Collecting"
  /\ progress' = 0
  /\ call' = Call("elect", 0, << >>, Err("NotReady"), FALSE)
  /\ UNCHANGED <<provider, snapshot, stored>>

\* elect() in Collecting that throws the work done so far away
ElectCollecting_restart ==
  /\ provider = "stateful"
  /\ phase = "Collecting"
  /\ call' = Call("elect", 0, << >>, Err("NotReady"), FALSE)
  /\ progress' = 0
  /\ UNCHANGED <<provider, snapshot, phase, stored>>

\* elect() in Collecting
ElectCollecting ==
  /\ provider = "stateful"
  /\ phase = "Collecting"
  /\ call' = Call("elect", 0, << >>, Err("NotReady"), FALSE)
  /\ UNCHANGED <<provider, snapshot, machine>>

\* elect() in Ready
ElectReady ==
  /\ provider = "stateful"
  /\ phase = "Ready"
  /\ call' = Call("elect", 0, << >>, stored, FALSE)
  /\ phase' = "Idle"
  /\ stored' = NoOutcome
  /\ progress' = 0
  /\ UNCHANGED <<provider, snapshot>>

\* one scheduling round of solving
Work ==
  /\ provider = "stateful"
  /\ phase = "Collecting"
  /\ progress < WorkNeeded
  /\ progress' = progress + 1
  /\ IF progress + 1 = WorkNeeded
       THEN /\ phase' = "Ready"
            /\ stored' = Ok(Solve(targets, desired_targets))
       ELSE UNCHANGED <<phase, stored>>
  /\ UNCHANGED <<provider, snapshot, call>>

\* the hard deadline passes with no solution: the fallback is stored
Deadline ==
  /\ provider = "stateful"
  /\ phase = "Collecting"
  /\ phase' = "Ready"
  /\ stored' = Ok(Fallback)
  /\ UNCHANGED <<provider, snapshot, progress, call>>

OngoingStateful ==
  /\ provider = "stateful"
  /\ call' = Call("ongoing", 0, << >>, NoOutcome, ongoing_stateful(phase))
  /\ UNCHANGED <<provider, snapshot, machine>>

Next ==
  \/ CallElect
  \/ CallOngoing
  \/ CallFeasibility
  \/ ElectIdleSync
  \/ ElectIdleDefer
  \/ ElectCollecting
  \/ ElectReady
  \/ Work
  \/ Deadline
  \/ OngoingStateful

Spec == Init /\ [][Next]_vars

TypeOK ==
  /\ provider \in {"stateless", "stateful"}
  /\ targets \in TargetLists
  /\ voters \in VoterLists
  /\ desired_targets \in 0..MaxDesired
  /\ phase \in {"Idle", "Collecting", "Ready"}
  /\ progress \in 0..WorkNeeded

\* ------------------------------------------------------------- properties
\* a step that is a call of `op` (a repeated identical call that changes
\* nothing is a stuttering step)
IsCall(op) == call' # call /\ call'.op = op

\* the last call was elect() on the example provider
ExampleElected == provider = "stateless" /\ call.op = "elect"

\* the voters' stakes of one Support, summed
RECURSIVE SumStakes(_)
SumStakes(backers) ==
  IF backers = << >> THEN 0 ELSE Head(backers)[2] + SumStakes(Tail(backers))

\* the stake `who` contributes to one Support
RECURSIVE StakeOf(_, _)
StakeOf(who, backers) ==
  IF backers = << >> THEN 0
  ELSE (IF Head(backers)[1] = who THEN Head(backers)[2] ELSE 0)
         + StakeOf(who, Tail(backers))

\* the stake `who` contributes over all Supports of an outcome
RECURSIVE Contributed(_, _)
Contributed(who, supports) ==
  IF supports = << >> THEN 0
  ELSE StakeOf(who, Head(supports)[2].voters) + Contributed(who, Tail(supports))

Winners(supports) == {supports[i][1] : i \in DOMAIN supports}

\* C1: a stateful provider's elect() called in Collecting returns the
\* "not ready" error and leaves the provider's state as it was.
C1_ElectInCollectingNotReady ==
  [][(provider = "stateful" /\ phase = "Collecting" /\ IsCall("elect"))
       => (call'.res = Err("NotReady") /\ machine' = machine)]_vars

C1_Witness ==
  /\ provider = "stateful"
  /\ call.op = "elect"
  /\ call.at = "Collecting"
  /\ progress > 0

\* C2: ongoing() returns true exactly when the provider is in Collecting; the
\* stateless provider is never in Collecting and always returns false.
C2_OngoingIffCollecting ==
  /\ call.op = "ongoing" => (call.flag <=> call.at = "Collecting")
  /\ provider = "stateless" =>
       /\ phase # "Collecting"
       /\ call.op = "ongoing" => ~call.flag

C2_Witness ==
  /\ provider = "stateless"
  /\ call.op = "ongoing"
  /\ call.prev = <<"elect", "Ok">>

\* C3: the phase of a stateful provider only moves Idle -> Collecting ->
\* Ready -> Idle, and elect() called in Ready returns the stored outcome and
\* leaves the provider in Idle.
C3_CycleNeverSkips ==
  [][/\ phase' # phase =>
          <<phase, phase'>> \in {<<"Idle", "Collecting">>,
                                 <<"Collecting", "Ready">>,
                                 <<"Ready", "Idle">>}
     /\ (provider = "stateful" /\ phase = "Ready" /\ IsCall("elect"))
          => (call'.res = stored /\ phase' = "Idle")]_vars

C3_Witness ==
  /\ provider = "stateful"
  /\ call.op = "elect"
  /\ call.at = "Ready"
  /\ call.res.tag = "Ok"
  /\ Len(call.res.supports) > 0
  /\ phase = "Idle"

\* C4: a call of ongoing() changes neither the provider's state (phase,
\* stored outcome, progress) nor the snapshot a following elect() reads.
C4_OngoingIsPure ==
  [][IsCall("ongoing")
       => (machine' = machine /\ snapshot' = snapshot /\ provider' = provider)]_vars

C4_Witness ==
  /\ provider = "stateless"
  /\ call.op = "ongoing"
  /\ call.prev[1] = "ongoing"
  /\ phase = "Idle"

\* C5 (as claimed): when desired_targets() >= the number of targets, elect()
\* succeeds and its outcome holds every target exactly once and no other.
C5_AllTargetsElected ==
  (ExampleElected /\ desired_targets >= Len(targets))
    => /\ call.res.tag = "Ok"
       /\ Len(call.res.supports) = Len(targets)
       /\ Winners(call.res.supports) = Range(targets)

\* C6 (as claimed): when desired_targets() is 0, elect() succeeds with the
\* empty sequence of Supports.
C6_NoneDesiredNoneElected ==
  (ExampleElected /\ desired_targets = 0) => call.res = Ok(<< >>)

\* C7 (as claimed): the feasibility check returns false for a distribution
\* naming a target outside the voter's approval list.
C7_AbsentTargetRejected ==
  (call.op = "feasibility" /\ ~(Named(call.dist) \subseteq ApprovalsOf(call.who)))
    => call.flag = FALSE

\* C7 (amended): the feasibility check of the example data provider returns
\* the boolean true for every voter and every distribution, also for one
\* naming a target outside the voter's approval list or outside targets().
C7_ExampleAcceptsAll ==
  call.op = "feasibility" => (call.flag = TRUE /\ call.res = NoOutcome)

C7_Witness ==
  /\ call.op = "feasibility"
  /\ Len(voters) > 0
  /\ call.who = voters[1][1]
  /\ voters[1][3] # << >>
  /\ ~(Named(call.dist) \subseteq ApprovalsOf(call.who))
  /\ ~(Named(call.dist) \subseteq Range(targets))

\* C8: in every outcome a successful elect() returns, the stakes of the
\* voters listed in a Support sum to exactly the Support's total.
C8_SupportTotalIsSum ==
  (call.op = "elect" /\ call.res.tag = "Ok")
    => \A i \in DOMAIN call.res.supports :
         SumStakes(call.res.supports[i][2].voters) = call.res.supports[i][2].total

C8_Witness ==
  /\ ExampleElected
  /\ call.res.tag = "Ok"
  /\ Len(call.res.supports) > 0
  /\ Len(voters) > 0

\* C9: in every outcome a successful elect() returns, no voter of the
\* snapshot contributes, over all Supports, more than its stake weight.
C9_VoterNeverOverdrawn ==
  (call.op = "elect" /\ call.res.tag = "Ok")
    => \A v \in DOMAIN voters :
         Contributed(voters[v][1], call.res.supports) <= voters[v][2]

C9_Witness ==
  /\ ExampleElected
  /\ call.res.tag = "Ok"
  /\ Len(call.res.supports) > 0
  /\ Len(voters) > 0
  /\ voters[1][2] = 0

\* C10 (as claimed): with no voters, some targets and one desired winner,
\* elect() returns an outcome without any winner (the empty winner set, or
\* a fallback; the example provider documents no fallback with winners).
C10_NoVotersNoWinner ==
  (ExampleElected /\ voters = << >> /\ Len(targets) > 0 /\ desired_targets = 1)
    => call.res.supports = << >>

\* C10 (amended): with no voters, some targets and one desired winner,
\* elect() returns a successful outcome of exactly one entry, the first
\* target with an empty Support (total 0, no backers).
C10_NoVotersFirstTarget ==
  (ExampleElected /\ voters = << >> /\ Len(targets) > 0 /\ desired_targets = 1)
    => call.res = [tag |-> "Ok",
                   supports |-> << <<targets[1], [total |-> 0, voters |-> << >>]>> >>]

\* the binding of the crate documentation: targets 10, 20, 30, no voters,
\* one desired winner
C10_Witness ==
  /\ ExampleElected
  /\ voters = ExampleVoters
  /\ targets = ExampleTargets
  /\ desired_targets = ExampleDesiredTargets
  /\ call.res.tag = "Ok"
====
